---- MODULE Spec2Model ----
(***************************************************************************)
(* A model of utilities/extendSchema.js: extendSchema and extendSchemaImpl *)
(* with the closures extendSchemaImpl defines (replaceType, extendNamedType,*)
(* buildType, getNamedType, ...).                                          *)
(*                                                                         *)
(* JavaScript values are modelled as follows.                              *)
(*  - An object used as a map ({...}, Object.create(null)) is a sequence   *)
(*    of [key, value] entries in insertion order; assigning an existing    *)
(*    key overwrites the entry in place.                                   *)
(*  - An AST node is referred to by its identifier in the table AST, so    *)
(*    that two lists holding the same node hold the same reference.        *)
(*  - A type instance is referred to by [name, origin]: origin "std" is    *)
(*    the instance of the built-in table, "base" an instance of the schema *)
(*    given to extendSchema, "extended" an instance made by one of the     *)
(*    extend*Type functions and "built" one made by buildType.             *)
(*  - A thrown error is a completion record [throw, error, ...].           *)
(***************************************************************************)
EXTENDS Integers, Sequences, FiniteSets, TLC

\* The longest document (number of top-level definitions) that is explored.
MaxDefs == 2

undefined == "undefined"

UndefinedInst == [name |-> undefined, origin |-> undefined]

\* ------------------------------------------------------------------------
\* JavaScript objects used as insertion-ordered maps, and arrays.

\* body(value), with value worked out once.
Let(value, body(_)) == CHOOSE r \in {body(v) : v \in {value}} : TRUE

ObjKeys(o) == [k \in DOMAIN o |-> o[k].key]

ObjHas(o, key) == \E k \in DOMAIN o : o[k].key = key

ObjIndex(o, key) == CHOOSE k \in DOMAIN o : o[k].key = key

ObjGet(o, key) == o[ObjIndex(o, key)].value

\* o[key] = value
ObjSet(o, key, value) ==
  IF ObjHas(o, key)
    THEN [o EXCEPT ![ObjIndex(o, key)] = [key |-> key, value |-> value]]
    ELSE Append(o, [key |-> key, value |-> value])

RECURSIVE ObjSpread(_, _)
\* { ...a, ...b }
ObjSpread(a, b) ==
  IF b = <<>> THEN a
  ELSE Let(ObjSet(a, Head(b).key, Head(b).value),
           LAMBDA set : ObjSpread(set, Tail(b)))

\* objectValues(o)
objectValues(o) == [k \in DOMAIN o |-> o[k].value]

\* receiver.push(...items) in the place of concat: the receiver grows.
concat_push(receiver, items) ==
  [result |-> receiver \o items, receiver |-> receiver \o items]

\* receiver.concat(items): the new array, and the receiver after the call.
concat(receiver, items) ==
  [result |-> receiver \o items, receiver |-> receiver]

\* ------------------------------------------------------------------------
\* Type references.  An AST type node is [w, name] and a runtime type is
\* [w, inst]; w lists the wrappers from the outside in.

NamedTypeNode(name) == [w |-> <<>>, name |-> name]
ListTypeNode(node) == [w |-> <<"List">> \o node.w, name |-> node.name]
NonNullTypeNode(node) == [w |-> <<"NonNull">> \o node.w, name |-> node.name]

NamedType(inst) == [w |-> <<>>, inst |-> inst]
GraphQLList(type) == [w |-> <<"List">> \o type.w, inst |-> type.inst]
GraphQLNonNull(type) == [w |-> <<"NonNull">> \o type.w, inst |-> type.inst]
isListType(type) == type.w # <<>> /\ Head(type.w) = "List"
isNonNullType(type) == type.w # <<>> /\ Head(type.w) = "NonNull"
ofType(type) == [type EXCEPT !.w = Tail(type.w)]

\* ------------------------------------------------------------------------
\* Completion records.

Ok(v) == [throw |-> FALSE, error |-> "", value |-> v]
UnknownTypeError(name) == [throw |-> TRUE, error |-> name, value |-> <<>>]

\* ------------------------------------------------------------------------
\* The built-in table: the specification-defined scalars and the
\* introspection types (a representative part of each list).

specifiedScalarTypes == <<"String", "Int">>

introspectionTypes == <<"__Schema">>

StdInst(name) == [name |-> name, origin |-> "std"]

Field(type, args) == [type |-> type, args |-> args]

Entry(key, value) == [key |-> key, value |-> value]

\* The fields, interfaces or member types of a type: a value that is already
\* resolved, or one of the two deferred computations the builder stores, with
\* what the closure captured (the base type's value and the AST nodes).
Value(v) == [mode |-> "value", base |-> v, nodes |-> <<>>]
ExtendThunk(base, nodes) == [mode |-> "extend", base |-> base, nodes |-> nodes]
BuildThunk(nodes) == [mode |-> "build", base |-> <<>>, nodes |-> nodes]

TypeObject(name, kind, origin) ==
  [name |-> name, kind |-> kind, origin |-> origin,
   description |-> undefined, specifiedByUrl |-> undefined,
   fields |-> Value(<<>>), interfaces |-> Value(<<>>), types |-> Value(<<>>),
   values |-> <<>>, extensionASTNodes |-> <<>>]

StdType(name) ==
  CASE name = "String" ->
         [TypeObject("String", "Scalar", "std") EXCEPT !.description = "string"]
    [] name = "Int" ->
         [TypeObject("Int", "Scalar", "std") EXCEPT !.description = "int"]
    [] name = "__Schema" ->
         [TypeObject("__Schema", "Object", "std") EXCEPT
            !.description = "schema",
            !.fields = Value(<<Entry("description",
                                     Field(NamedType(StdInst("String")), <<>>))>>)]

\* keyMap(specifiedScalarTypes.concat(introspectionTypes), type => type.name)
stdTypeMap ==
  LET all == specifiedScalarTypes \o introspectionTypes
  IN  [k \in DOMAIN all |-> Entry(all[k], StdType(all[k]))]

isSpecifiedScalarType(type) ==
  \E k \in DOMAIN specifiedScalarTypes : specifiedScalarTypes[k] = type.name

isIntrospectionType(type) ==
  \E k \in DOMAIN introspectionTypes : introspectionTypes[k] = type.name

\* ------------------------------------------------------------------------
\* The schema given to extendSchema, as schema.toConfig() returns it.  Its
\* types refer to one another by instance, and it holds the built-in types
\* that a schema always holds ("Int" is referenced by nothing and absent).

BaseInst(name) == [name |-> name, origin |-> "base"]

BaseRef(name) == NamedType(BaseInst(name))

BaseTypes ==
  << [TypeObject("Q", "Object", "base") EXCEPT
        !.description = "q",
        !.fields = Value(<<Entry("q", Field(BaseRef("A"), <<>>))>>)],
     [TypeObject("A", "Object", "base") EXCEPT
        !.description = "a",
        !.fields = Value(<<Entry("a", Field(BaseRef("A"),
                                 <<Entry("x", [type |-> BaseRef("In")])>>)),
                           Entry("s", Field(NamedType(StdInst("String")), <<>>))>>),
        !.interfaces = Value(<<BaseInst("I")>>),
        !.extensionASTNodes = <<"baseExtA">>],
     [TypeObject("B", "Object", "base") EXCEPT
        !.fields = Value(<<Entry("b", Field(GraphQLList(GraphQLNonNull(BaseRef("A"))),
                                 <<>>))>>)],
     [TypeObject("I", "Interface", "base") EXCEPT
        !.fields = Value(<<Entry("a", Field(BaseRef("A"), <<>>))>>)],
     [TypeObject("S", "Scalar", "base") EXCEPT !.specifiedByUrl = "u0"],
     [TypeObject("Un", "Union", "base") EXCEPT
        !.types = Value(<<BaseInst("A"), BaseInst("B")>>)],
     [TypeObject("E", "Enum", "base") EXCEPT
        !.values = <<Entry("X", [description |-> undefined])>>],
     [TypeObject("In", "InputObject", "base") EXCEPT
        !.fields = Value(<<Entry("i", Field(GraphQLNonNull(BaseRef("S")), <<>>)),
                           Entry("j", Field(BaseRef("In"), <<>>))>>)],
     StdType("String"),
     StdType("__Schema") >>

BaseDirectives ==
  << [name |-> "d", isRepeatable |-> FALSE, locations |-> <<"FIELD">>,
      description |-> "dir",
      args |-> <<Entry("x", [type |-> GraphQLNonNull(BaseRef("A"))])>>] >>

BaseSchemaConfig ==
  [description |-> "baseDesc",
   query |-> BaseInst("Q"), mutation |-> UndefinedInst,
   subscription |-> UndefinedInst,
   types |-> BaseTypes, directives |-> BaseDirectives,
   astNode |-> undefined, extensionASTNodes |-> <<"baseSchemaExt">>]

\* ------------------------------------------------------------------------
\* AST nodes.  A document is a sequence of identifiers of definitions.

Node(kind, name) ==
  [kind |-> kind, name |-> name, description |-> undefined,
   operationTypes |-> <<>>, fields |-> <<>>, interfaces |-> <<>>,
   types |-> <<>>, values |-> <<>>, arguments |-> <<>>,
   locations |-> <<>>, repeatable |-> FALSE, specifiedBy |-> undefined]

FieldNode(name, type, arguments) ==
  [name |-> name, type |-> type, arguments |-> arguments]

InputValueNode(name, type) == [name |-> name, type |-> type]

OperationTypeNode(operation, name) ==
  [operation |-> operation, type |-> NamedTypeNode(name)]

AST(id) ==
  CASE id = "op" -> Node("OperationDefinition", "op")
    [] id = "schemaDef" ->
         [Node("SchemaDefinition", undefined) EXCEPT
            !.description = "sdDesc",
            !.operationTypes = <<OperationTypeNode("query", "B"),
                                 OperationTypeNode("mutation", "B")>>]
    [] id = "schemaExt1" ->
         [Node("SchemaExtension", undefined) EXCEPT
            !.operationTypes = <<OperationTypeNode("query", "C"),
                                 OperationTypeNode("mutation", "A")>>]
    [] id = "schemaExt2" ->
         [Node("SchemaExtension", undefined) EXCEPT
            !.operationTypes = <<OperationTypeNode("query", "B"),
                                 OperationTypeNode("query", "A")>>]
    [] id = "typeDefC" ->
         [Node("ObjectTypeDefinition", "C") EXCEPT
            !.description = "c",
            !.fields = <<FieldNode("c", ListTypeNode(NonNullTypeNode(NamedTypeNode("C"))), <<>>),
                         FieldNode("n", NamedTypeNode("Int"), <<>>)>>,
            !.interfaces = <<NamedTypeNode("I")>>]
    [] id = "typeDefD" ->
         [Node("ScalarTypeDefinition", "D") EXCEPT !.specifiedBy = "u1"]
    [] id = "typeDefStd" ->
         [Node("ObjectTypeDefinition", "__Schema") EXCEPT
            !.description = "redefined",
            !.fields = <<FieldNode("x", NamedTypeNode("U"), <<>>)>>]
    [] id = "extA1" ->
         [Node("ObjectTypeExtension", "A") EXCEPT
            !.fields = <<FieldNode("f", NamedTypeNode("B"), <<>>),
                         FieldNode("a", NamedTypeNode("Int"), <<>>)>>]
    [] id = "extA2" ->
         [Node("ObjectTypeExtension", "A") EXCEPT
            !.fields = <<FieldNode("f", NonNullTypeNode(ListTypeNode(NamedTypeNode("A"))),
                                   <<InputValueNode("x", NamedTypeNode("In"))>>)>>,
            !.interfaces = <<NamedTypeNode("I")>>]
    [] id = "extI" ->
         [Node("InterfaceTypeExtension", "I") EXCEPT
            !.fields = <<FieldNode("g", NamedTypeNode("A"),
                                   <<InputValueNode("y", NamedTypeNode("U"))>>)>>,
            !.interfaces = <<NamedTypeNode("C")>>]
    [] id = "extUn" ->
         [Node("UnionTypeExtension", "Un") EXCEPT
            !.types = <<NamedTypeNode("A"), NamedTypeNode("C")>>]
    [] id = "extUn2" ->
         [Node("UnionTypeExtension", "Un") EXCEPT
            !.types = <<NamedTypeNode("B"), NamedTypeNode("Q")>>]
    [] id = "extIn" ->
         [Node("InputObjectTypeExtension", "In") EXCEPT
            !.fields = <<FieldNode("i", ListTypeNode(NamedTypeNode("In")), <<>>),
                         FieldNode("k", NamedTypeNode("D"), <<>>)>>]
    [] id = "extS1" ->
         [Node("ScalarTypeExtension", "S") EXCEPT !.specifiedBy = "u2"]
    [] id = "extS2" -> Node("ScalarTypeExtension", "S")
    [] id = "extD" ->
         [Node("ScalarTypeExtension", "D") EXCEPT !.specifiedBy = "u3"]
    [] id = "extStd" ->
         [Node("ObjectTypeExtension", "__Schema") EXCEPT
            !.fields = <<FieldNode("z", NamedTypeNode("U"), <<>>)>>]
    [] id = "directiveDef" ->
         [Node("DirectiveDefinition", "e") EXCEPT
            !.locations = <<"OBJECT">>,
            !.arguments = <<InputValueNode("y", ListTypeNode(NamedTypeNode("A"))),
                            InputValueNode("z", NamedTypeNode("D"))>>]
    [] id = "baseExtA" -> Node("ObjectTypeExtension", "A")
    [] id = "baseSchemaExt" -> Node("SchemaExtension", undefined)
    [] id = undefined -> Node(undefined, undefined)

\* The definitions a document is made of.
Definitions ==
  {"op", "schemaDef", "schemaExt1", "schemaExt2", "typeDefC", "typeDefD",
   "typeDefStd", "extA1", "extA2", "extI", "extUn", "extUn2", "extIn", "extS1", "extS2",
   "extD", "extStd", "directiveDef"}

Documents == UNION {[1..n -> Definitions] : n \in 0..MaxDefs}

isTypeDefinitionNode(def) ==
  AST(def).kind \in {"ScalarTypeDefinition", "ObjectTypeDefinition",
                     "InterfaceTypeDefinition", "UnionTypeDefinition",
                     "EnumTypeDefinition", "InputObjectTypeDefinition"}

isTypeExtensionNode(def) ==
  AST(def).kind \in {"ScalarTypeExtension", "ObjectTypeExtension",
                     "InterfaceTypeExtension", "UnionTypeExtension",
                     "EnumTypeExtension", "InputObjectTypeExtension"}

\* getDirectiveValues(GraphQLSpecifiedByDirective, node)?.url
getSpecifiedByUrl(node) == AST(node).specifiedBy

\* ------------------------------------------------------------------------
\* State.

VARIABLES
  schemaConfig,       \* schema.toConfig() of the schema given to extendSchema
  documentAST,        \* the document: identifiers of its definitions
  pc,                 \* where the call is
  typeDefs,           \* extendSchemaImpl's locals ...
  typeExtensionsMap,
  directiveDefs,
  schemaDef,
  schemaExtensions,
  typeMap,
  operationTypes,
  i,                  \* the position of the running for-of loop
  extendedConfig,     \* what extendSchemaImpl returned or threw
  result,             \* what extendSchema returned or threw
  lastRead,           \* the last deferred value a holder of the result read
  lookedUp            \* whether the type map has been looked up yet

vars ==
  <<schemaConfig, documentAST, pc, typeDefs, typeExtensionsMap, directiveDefs,
    schemaDef, schemaExtensions, typeMap, operationTypes, i, extendedConfig,
    result, lastRead, lookedUp>>

InstOf(type) == [name |-> type.name, origin |-> type.origin]

\* mapValue(map, fn)
mapValue(map, fn(_)) == [k \in DOMAIN map |-> Entry(map[k].key, fn(map[k].value))]

\* typeExtensionsMap[name] ?? []
extensionsOf(name) ==
  IF ObjHas(typeExtensionsMap, name) THEN ObjGet(typeExtensionsMap, name) ELSE <<>>

\* ------------------------------------------------------------------------
\* The closures of extendSchemaImpl that resolve type references.  They
\* read typeMap as it is when they run.

\* replaceNamedType that hands back the type it was given.
replaceNamedType_same(type) == type

replaceNamedType(type) ==
  IF ObjHas(typeMap, type.name) THEN InstOf(ObjGet(typeMap, type.name))
  ELSE UndefinedInst

RECURSIVE replaceType(_)
replaceType(type) ==
  IF isListType(type) THEN GraphQLList(replaceType(ofType(type)))
  ELSE IF isNonNullType(type) THEN GraphQLNonNull(replaceType(ofType(type)))
  ELSE NamedType(replaceNamedType(type.inst))

extendArg(arg) == [arg EXCEPT !.type = replaceType(arg.type)]

extendField(field) ==
  [field EXCEPT !.type = replaceType(field.type),
                !.args = mapValue(field.args, extendArg)]

replaceDirective(directive) ==
  [directive EXCEPT !.args = mapValue(directive.args, extendArg)]

\* getNamedType without its test for a type that was not found.
getNamedType_noTest(node) ==
  LET name == node.name
  IN  IF ObjHas(stdTypeMap, name) THEN Ok(StdInst(name))
      ELSE IF ObjHas(typeMap, name) THEN Ok(InstOf(ObjGet(typeMap, name)))
      ELSE Ok(UndefinedInst)

getNamedType(node) ==
  LET name == node.name
  IN  IF ObjHas(stdTypeMap, name) THEN Ok(StdInst(name))
      ELSE IF ObjHas(typeMap, name) THEN Ok(InstOf(ObjGet(typeMap, name)))
      ELSE UnknownTypeError(name)

RECURSIVE getWrappedType(_)
getWrappedType(node) ==
  IF node.w # <<>> /\ Head(node.w) = "List" THEN
    Let(getWrappedType([node EXCEPT !.w = Tail(node.w)]),
        LAMBDA inner : IF inner.throw THEN inner ELSE Ok(GraphQLList(inner.value)))
  ELSE IF node.w # <<>> /\ Head(node.w) = "NonNull" THEN
    Let(getWrappedType([node EXCEPT !.w = Tail(node.w)]),
        LAMBDA inner : IF inner.throw THEN inner ELSE Ok(GraphQLNonNull(inner.value)))
  ELSE
    Let(getNamedType(node),
        LAMBDA named : IF named.throw THEN named ELSE Ok(NamedType(named.value)))

RECURSIVE buildArgumentMapFrom(_, _)
\* The loop of buildArgumentMap over the arguments that are left.
buildArgumentMapFrom(args, argConfigMap) ==
  IF args = <<>> THEN Ok(argConfigMap)
  ELSE Let(getWrappedType(Head(args).type),
           LAMBDA type :
             IF type.throw THEN type
             ELSE Let(ObjSet(argConfigMap, Head(args).name, [type |-> type.value]),
                      LAMBDA set : buildArgumentMapFrom(Tail(args), set)))

buildArgumentMap(args) == buildArgumentMapFrom(args, <<>>)

RECURSIVE buildFieldMapFields(_, _)
\* The inner loop of buildFieldMap over the fields of one node.
buildFieldMapFields(nodeFields, fieldConfigMap) ==
  IF nodeFields = <<>> THEN Ok(fieldConfigMap)
  ELSE Let(getWrappedType(Head(nodeFields).type),
           LAMBDA type :
             IF type.throw THEN type
             ELSE Let(buildArgumentMap(Head(nodeFields).arguments),
                      LAMBDA args :
                        IF args.throw THEN args
                        ELSE Let(ObjSet(fieldConfigMap, Head(nodeFields).name,
                                        Field(type.value, args.value)),
                                 LAMBDA set :
                                   buildFieldMapFields(Tail(nodeFields), set))))

RECURSIVE buildFieldMapNodes(_, _)
\* The outer loop of buildFieldMap over the nodes.
buildFieldMapNodes(nodes, fieldConfigMap) ==
  IF nodes = <<>> THEN Ok(fieldConfigMap)
  ELSE Let(buildFieldMapFields(AST(Head(nodes)).fields, fieldConfigMap),
           LAMBDA done :
             IF done.throw THEN done ELSE buildFieldMapNodes(Tail(nodes), done.value))

buildFieldMap(nodes) == buildFieldMapNodes(nodes, <<>>)

RECURSIVE buildInputFieldMapFields(_, _)
\* The inner loop of buildInputFieldMap over the fields of one node.
buildInputFieldMapFields(fieldsNodes, inputFieldMap) ==
  IF fieldsNodes = <<>> THEN Ok(inputFieldMap)
  ELSE Let(getWrappedType(Head(fieldsNodes).type),
           LAMBDA type :
             IF type.throw THEN type
             ELSE Let(ObjSet(inputFieldMap, Head(fieldsNodes).name,
                             Field(type.value, <<>>)),
                      LAMBDA set : buildInputFieldMapFields(Tail(fieldsNodes), set)))

RECURSIVE buildInputFieldMapNodes(_, _)
\* The outer loop of buildInputFieldMap over the nodes.
buildInputFieldMapNodes(nodes, inputFieldMap) ==
  IF nodes = <<>> THEN Ok(inputFieldMap)
  ELSE Let(buildInputFieldMapFields(AST(Head(nodes)).fields, inputFieldMap),
           LAMBDA done :
             IF done.throw THEN done
             ELSE buildInputFieldMapNodes(Tail(nodes), done.value))

buildInputFieldMap(nodes) == buildInputFieldMapNodes(nodes, <<>>)

RECURSIVE buildEnumValueMapValues(_, _)
\* The inner loop of buildEnumValueMap over the values of one node.
buildEnumValueMapValues(valuesNodes, enumValueMap) ==
  IF valuesNodes = <<>> THEN enumValueMap
  ELSE Let(ObjSet(enumValueMap, Head(valuesNodes).name,
                  [description |-> Head(valuesNodes).description]),
           LAMBDA set : buildEnumValueMapValues(Tail(valuesNodes), set))

RECURSIVE buildEnumValueMapNodes(_, _)
\* The outer loop of buildEnumValueMap over the nodes.
buildEnumValueMapNodes(nodes, enumValueMap) ==
  IF nodes = <<>> THEN enumValueMap
  ELSE Let(buildEnumValueMapValues(AST(Head(nodes)).values, enumValueMap),
           LAMBDA done : buildEnumValueMapNodes(Tail(nodes), done))

buildEnumValueMap(nodes) == buildEnumValueMapNodes(nodes, <<>>)

RECURSIVE getNamedTypes(_, _)
\* for (const type of typeNodes) list.push(getNamedType(type))
getNamedTypes(typeNodes, list) ==
  IF typeNodes = <<>> THEN Ok(list)
  ELSE Let(getNamedType(Head(typeNodes)),
           LAMBDA type :
             IF type.throw THEN type
             ELSE Let(Append(list, type.value),
                      LAMBDA pushed : getNamedTypes(Tail(typeNodes), pushed)))

RECURSIVE buildInterfacesNodes(_, _)
\* The outer loop of buildInterfaces over the nodes.
buildInterfacesNodes(nodes, interfaces) ==
  IF nodes = <<>> THEN Ok(interfaces)
  ELSE Let(getNamedTypes(AST(Head(nodes)).interfaces, interfaces),
           LAMBDA done :
             IF done.throw THEN done ELSE buildInterfacesNodes(Tail(nodes), done.value))

buildInterfaces(nodes) == buildInterfacesNodes(nodes, <<>>)

RECURSIVE buildUnionTypesNodes(_, _)
\* The outer loop of buildUnionTypes over the nodes.
buildUnionTypesNodes(nodes, types) ==
  IF nodes = <<>> THEN Ok(types)
  ELSE Let(getNamedTypes(AST(Head(nodes)).types, types),
           LAMBDA done :
             IF done.throw THEN done ELSE buildUnionTypesNodes(Tail(nodes), done.value))

buildUnionTypes(nodes) == buildUnionTypesNodes(nodes, <<>>)

\* ------------------------------------------------------------------------
\* The closures of extendSchemaImpl that make the types of the new schema.

RECURSIVE specifiedByUrlAfter(_, _)
\* for (const extensionNode of extensions)
\*   specifiedByUrl = getSpecifiedByUrl(extensionNode) ?? specifiedByUrl;
specifiedByUrlAfter(extensions, specifiedByUrl) ==
  IF extensions = <<>> THEN specifiedByUrl
  ELSE specifiedByUrlAfter(
         Tail(extensions),
         IF getSpecifiedByUrl(Head(extensions)) # undefined
           THEN getSpecifiedByUrl(Head(extensions)) ELSE specifiedByUrl)

extendInputObjectType(type) ==
  LET extensions == extensionsOf(type.name)
  IN  [type EXCEPT
         !.origin = "extended",
         !.fields = ExtendThunk(type.fields.base, extensions),
         !.extensionASTNodes = concat(type.extensionASTNodes, extensions).result]

extendEnumType(type) ==
  LET extensions == extensionsOf(type.name)
  IN  [type EXCEPT
         !.origin = "extended",
         !.values = ObjSpread(type.values, buildEnumValueMap(extensions)),
         !.extensionASTNodes = concat(type.extensionASTNodes, extensions).result]

extendScalarType(type) ==
  LET extensions == extensionsOf(type.name)
  IN  [type EXCEPT
         !.origin = "extended",
         !.specifiedByUrl = specifiedByUrlAfter(extensions, type.specifiedByUrl),
         !.extensionASTNodes = concat(type.extensionASTNodes, extensions).result]

extendObjectType(type) ==
  LET extensions == extensionsOf(type.name)
  IN  [type EXCEPT
         !.origin = "extended",
         !.interfaces = ExtendThunk(type.interfaces.base, extensions),
         !.fields = ExtendThunk(type.fields.base, extensions),
         !.extensionASTNodes = concat(type.extensionASTNodes, extensions).result]

extendInterfaceType(type) ==
  LET extensions == extensionsOf(type.name)
  IN  [type EXCEPT
         !.origin = "extended",
         !.interfaces = ExtendThunk(type.interfaces.base, extensions),
         !.fields = ExtendThunk(type.fields.base, extensions),
         !.extensionASTNodes = concat(type.extensionASTNodes, extensions).result]

extendUnionType(type) ==
  LET extensions == extensionsOf(type.name)
  IN  [type EXCEPT
         !.origin = "extended",
         !.types = ExtendThunk(type.types.base, extensions),
         !.extensionASTNodes = concat(type.extensionASTNodes, extensions).result]

\* extendNamedType without its test for the built-in types.
extendNamedType_noBuiltinTest(type) ==
  CASE type.kind = "Scalar" -> extendScalarType(type)
    [] type.kind = "Object" -> extendObjectType(type)
    [] type.kind = "Interface" -> extendInterfaceType(type)
    [] type.kind = "Union" -> extendUnionType(type)
    [] type.kind = "Enum" -> extendEnumType(type)
    [] type.kind = "InputObject" -> extendInputObjectType(type)

extendNamedType(type) ==
  IF isIntrospectionType(type) \/ isSpecifiedScalarType(type) THEN type
  ELSE CASE type.kind = "Scalar" -> extendScalarType(type)
         [] type.kind = "Object" -> extendObjectType(type)
         [] type.kind = "Interface" -> extendInterfaceType(type)
         [] type.kind = "Union" -> extendUnionType(type)
         [] type.kind = "Enum" -> extendEnumType(type)
         [] type.kind = "InputObject" -> extendInputObjectType(type)

\* The base type after extendNamedType(type): the only call any extend*Type
\* function makes on a value of the base type is extensionASTNodes.concat.
afterExtendNamedType(type) ==
  IF isIntrospectionType(type) \/ isSpecifiedScalarType(type) THEN type
  ELSE [type EXCEPT
          !.extensionASTNodes =
             concat(type.extensionASTNodes, extensionsOf(type.name)).receiver]

\* The names extendNamedType(type) resolves while it runs: none, every
\* reference it makes to another type is behind a thunk.
extendNamedTypeResolves(type) == {}

buildType(astNode) ==
  LET node == AST(astNode)
      name == node.name
      extensionNodes == extensionsOf(name)
      allNodes == <<astNode>> \o extensionNodes
      made(kind) == [TypeObject(name, kind, "built") EXCEPT
                       !.description = node.description,
                       !.extensionASTNodes = extensionNodes]
  IN  CASE node.kind = "ObjectTypeDefinition" ->
             [made("Object") EXCEPT !.interfaces = BuildThunk(allNodes),
                                    !.fields = BuildThunk(allNodes)]
        [] node.kind = "InterfaceTypeDefinition" ->
             [made("Interface") EXCEPT !.interfaces = BuildThunk(allNodes),
                                       !.fields = BuildThunk(allNodes)]
        [] node.kind = "EnumTypeDefinition" ->
             [made("Enum") EXCEPT !.values = buildEnumValueMap(allNodes)]
        [] node.kind = "UnionTypeDefinition" ->
             [made("Union") EXCEPT !.types = BuildThunk(allNodes)]
        [] node.kind = "ScalarTypeDefinition" ->
             [made("Scalar") EXCEPT !.specifiedByUrl = getSpecifiedByUrl(astNode)]
        [] node.kind = "InputObjectTypeDefinition" ->
             [made("InputObject") EXCEPT !.fields = BuildThunk(allNodes)]

\* The names buildType(astNode) resolves while it runs: none, every
\* reference it makes to another type is behind a thunk.
\* What buildType would resolve while it runs if it built the field map of
\* an object or interface type itself instead of storing the arrow function.
buildTypeResolves_fieldsAtOnce(astNode) ==
  {AST(astNode).fields[k].type.name : k \in DOMAIN AST(astNode).fields}

buildTypeResolves(astNode) == {}

buildDirective(node) ==
  Let(buildArgumentMap(AST(node).arguments),
      LAMBDA args :
        IF args.throw THEN args
        ELSE Ok([name |-> AST(node).name, description |-> AST(node).description,
                 locations |-> AST(node).locations,
                 isRepeatable |-> AST(node).repeatable, args |-> args.value]))

RECURSIVE buildDirectives(_, _)
\* directiveDefs.map(buildDirective)
buildDirectives(nodes, list) ==
  IF nodes = <<>> THEN Ok(list)
  ELSE Let(buildDirective(Head(nodes)),
           LAMBDA directive :
             IF directive.throw THEN directive
             ELSE Let(Append(list, directive.value),
                      LAMBDA pushed : buildDirectives(Tail(nodes), pushed)))

\* ------------------------------------------------------------------------
\* The deferred values, as the thunks stored by extend*Type and buildType
\* compute them when a holder of the type first reads them.

\* The thunks of extend*Type with the two spreads the other way round:
\* { ...buildFieldMap(extensions), ...mapValue(config.fields, extendField) }.
fieldsThunk_baseLast(type) ==
  CASE type.fields.mode = "value" -> Ok(type.fields.base)
    [] type.fields.mode = "extend" /\ type.kind = "InputObject" ->
         LET repoint(field) == [field EXCEPT !.type = replaceType(field.type)]
         IN  Let(buildInputFieldMap(type.fields.nodes),
                 LAMBDA built :
                   IF built.throw THEN built
                   ELSE Let(mapValue(type.fields.base, repoint),
                            LAMBDA old : Ok(ObjSpread(built.value, old))))
    [] type.fields.mode = "extend" /\ type.kind # "InputObject" ->
         Let(buildFieldMap(type.fields.nodes),
             LAMBDA built :
               IF built.throw THEN built
               ELSE Let(mapValue(type.fields.base, extendField),
                        LAMBDA old : Ok(ObjSpread(built.value, old))))
    [] type.fields.mode = "build" /\ type.kind = "InputObject" ->
         buildInputFieldMap(type.fields.nodes)
    [] type.fields.mode = "build" /\ type.kind # "InputObject" ->
         buildFieldMap(type.fields.nodes)

fieldsThunk(type) ==
  CASE type.fields.mode = "value" -> Ok(type.fields.base)
    [] type.fields.mode = "extend" /\ type.kind = "InputObject" ->
         LET repoint(field) == [field EXCEPT !.type = replaceType(field.type)]
         IN  Let(buildInputFieldMap(type.fields.nodes),
                 LAMBDA built :
                   IF built.throw THEN built
                   ELSE Let(mapValue(type.fields.base, repoint),
                            LAMBDA old : Ok(ObjSpread(old, built.value))))
    [] type.fields.mode = "extend" /\ type.kind # "InputObject" ->
         Let(buildFieldMap(type.fields.nodes),
             LAMBDA built :
               IF built.throw THEN built
               ELSE Let(mapValue(type.fields.base, extendField),
                        LAMBDA old : Ok(ObjSpread(old, built.value))))
    [] type.fields.mode = "build" /\ type.kind = "InputObject" ->
         buildInputFieldMap(type.fields.nodes)
    [] type.fields.mode = "build" /\ type.kind # "InputObject" ->
         buildFieldMap(type.fields.nodes)

interfacesThunk(type) ==
  CASE type.interfaces.mode = "value" -> Ok(type.interfaces.base)
    [] type.interfaces.mode = "extend" ->
         LET old == [k \in DOMAIN type.interfaces.base |->
                       replaceNamedType(type.interfaces.base[k])]
         IN  Let(buildInterfaces(type.interfaces.nodes),
                 LAMBDA built : IF built.throw THEN built ELSE Ok(old \o built.value))
    [] type.interfaces.mode = "build" -> buildInterfaces(type.interfaces.nodes)

\* The thunk of extendUnionType with the two spreads the other way round:
\* [...buildUnionTypes(extensions), ...type.getTypes().map(replaceNamedType)].
typesThunk_extensionsFirst(type) ==
  CASE type.types.mode = "value" -> Ok(type.types.base)
    [] type.types.mode = "extend" ->
         LET old == [k \in DOMAIN type.types.base |->
                       replaceNamedType(type.types.base[k])]
         IN  Let(buildUnionTypes(type.types.nodes),
                 LAMBDA built : IF built.throw THEN built ELSE Ok(built.value \o old))
    [] type.types.mode = "build" -> buildUnionTypes(type.types.nodes)

typesThunk(type) ==
  CASE type.types.mode = "value" -> Ok(type.types.base)
    [] type.types.mode = "extend" ->
         LET old == [k \in DOMAIN type.types.base |->
                       replaceNamedType(type.types.base[k])]
         IN  Let(buildUnionTypes(type.types.nodes),
                 LAMBDA built : IF built.throw THEN built ELSE Ok(old \o built.value))
    [] type.types.mode = "build" -> buildUnionTypes(type.types.nodes)

\* ------------------------------------------------------------------------
\* extendSchemaImpl: collecting the definitions of the document.

NoDefinitions ==
  [typeDefs |-> <<>>, typeExtensionsMap |-> <<>>, directiveDefs |-> <<>>,
   schemaDef |-> undefined, schemaExtensions |-> <<>>]

RECURSIVE collectDefinitions(_, _)
\* for (const def of documentAST.definitions) { ... }
collectDefinitions(definitions, c) ==
  IF definitions = <<>> THEN c
  ELSE LET def == Head(definitions)
           extendedTypeName == AST(def).name
           next ==
             IF AST(def).kind = "SchemaDefinition" THEN
               [c EXCEPT !.schemaDef = def]
             ELSE IF AST(def).kind = "SchemaExtension" THEN
               [c EXCEPT !.schemaExtensions = Append(@, def)]
             ELSE IF isTypeDefinitionNode(def) THEN
               [c EXCEPT !.typeDefs = Append(@, def)]
             ELSE IF isTypeExtensionNode(def) THEN
               [c EXCEPT !.typeExtensionsMap =
                  ObjSet(@, extendedTypeName,
                         IF ObjHas(@, extendedTypeName)
                           THEN concat(ObjGet(@, extendedTypeName), <<def>>).result
                           ELSE <<def>>)]
             ELSE IF AST(def).kind = "DirectiveDefinition" THEN
               [c EXCEPT !.directiveDefs = Append(@, def)]
             ELSE c
       IN  collectDefinitions(Tail(definitions), next)

\* The test without its look at the type extensions.
nothingToExtend_noTypeExtensions(c) ==
  /\ Len(c.typeDefs) = 0
  /\ Len(c.directiveDefs) = 0
  /\ Len(c.schemaExtensions) = 0
  /\ c.schemaDef = undefined

\* The test that ends extendSchemaImpl with the configuration it was given.
nothingToExtend(c) ==
  /\ Len(ObjKeys(c.typeExtensionsMap)) = 0
  /\ Len(c.typeDefs) = 0
  /\ Len(c.directiveDefs) = 0
  /\ Len(c.schemaExtensions) = 0
  /\ c.schemaDef = undefined

\* ------------------------------------------------------------------------
\* extendSchemaImpl: the root operation types.

RECURSIVE getOperationTypesEntries(_, _)
\* The inner loop of getOperationTypes over the entries of one node.
getOperationTypesEntries(operationTypesNodes, opTypes) ==
  IF operationTypesNodes = <<>> THEN Ok(opTypes)
  ELSE Let(getNamedType(Head(operationTypesNodes).type),
           LAMBDA type :
             IF type.throw THEN type
             ELSE Let(ObjSet(opTypes, Head(operationTypesNodes).operation, type.value),
                      LAMBDA set :
                        getOperationTypesEntries(Tail(operationTypesNodes), set)))

RECURSIVE getOperationTypesNodes(_, _)
\* The outer loop of getOperationTypes over the nodes.
getOperationTypesNodes(nodes, opTypes) ==
  IF nodes = <<>> THEN Ok(opTypes)
  ELSE Let(getOperationTypesEntries(AST(Head(nodes)).operationTypes, opTypes),
           LAMBDA done :
             IF done.throw THEN done
             ELSE getOperationTypesNodes(Tail(nodes), done.value))

getOperationTypes(nodes) == getOperationTypesNodes(nodes, <<>>)

\* schemaConfig.query && replaceNamedType(schemaConfig.query)
replacedRoot(root) == IF root = UndefinedInst THEN UndefinedInst ELSE replaceNamedType(root)

\* The two spreads the other way round: the schema definition is spread last.
computeOperationTypes_definitionLast ==
  LET roots == <<Entry("query", replacedRoot(schemaConfig.query)),
                 Entry("mutation", replacedRoot(schemaConfig.mutation)),
                 Entry("subscription", replacedRoot(schemaConfig.subscription))>>
  IN  Let(IF schemaDef = undefined THEN Ok(<<>>) ELSE getOperationTypes(<<schemaDef>>),
          LAMBDA fromDef :
            IF fromDef.throw THEN fromDef
            ELSE Let(getOperationTypes(schemaExtensions),
                     LAMBDA fromExtensions :
                       IF fromExtensions.throw THEN fromExtensions
                       ELSE Let(ObjSpread(roots, fromExtensions.value),
                                LAMBDA withExtensions :
                                  Ok(ObjSpread(withExtensions, fromDef.value)))))

\* const operationTypes = { query: ..., ...(schemaDef && ...), ...getOperationTypes(...) }
computeOperationTypes ==
  LET roots == <<Entry("query", replacedRoot(schemaConfig.query)),
                 Entry("mutation", replacedRoot(schemaConfig.mutation)),
                 Entry("subscription", replacedRoot(schemaConfig.subscription))>>
  IN  Let(IF schemaDef = undefined THEN Ok(<<>>) ELSE getOperationTypes(<<schemaDef>>),
          LAMBDA fromDef :
            IF fromDef.throw THEN fromDef
            ELSE Let(getOperationTypes(schemaExtensions),
                     LAMBDA fromExtensions :
                       IF fromExtensions.throw THEN fromExtensions
                       ELSE Let(ObjSpread(roots, fromDef.value),
                                LAMBDA withDef :
                                  Ok(ObjSpread(withDef, fromExtensions.value)))))

\* ------------------------------------------------------------------------
\* The call.

NoConfig ==
  [description |-> undefined, query |-> UndefinedInst, mutation |-> UndefinedInst,
   subscription |-> UndefinedInst, types |-> <<>>, directives |-> <<>>,
   astNode |-> undefined, extensionASTNodes |-> <<>>]

NoRead == [type |-> undefined, member |-> undefined,
           throw |-> FALSE, error |-> "", value |-> <<>>]

Init ==
  /\ schemaConfig = BaseSchemaConfig
  /\ documentAST \in Documents
  /\ pc = "extendSchema"
  /\ typeDefs = <<>>
  /\ typeExtensionsMap = <<>>
  /\ directiveDefs = <<>>
  /\ schemaDef = undefined
  /\ schemaExtensions = <<>>
  /\ typeMap = <<>>
  /\ operationTypes = <<>>
  /\ i = 0
  /\ extendedConfig = [status |-> "none", same |-> FALSE, error |-> "", config |-> NoConfig]
  /\ result = [status |-> "none", schema |-> undefined, error |-> ""]
  /\ lastRead = NoRead
  /\ lookedUp = FALSE

implLocals ==
  <<typeDefs, typeExtensionsMap, directiveDefs, schemaDef, schemaExtensions,
    typeMap, operationTypes, i>>

\* extendSchema up to the call of extendSchemaImpl: the document is valid, or
\* options.assumeValid / assumeValidSDL skips the validation.
Validated ==
  /\ pc = "extendSchema"
  /\ pc' = "collect"
  /\ UNCHANGED <<schemaConfig, documentAST, implLocals, extendedConfig, result,
                 lastRead, lookedUp>>

\* extendSchema: assertValidSDLExtension throws.
ValidationFailed ==
  /\ pc = "extendSchema"
  /\ pc' = "done"
  /\ result' = [status |-> "throw", schema |-> undefined, error |-> "invalid SDL extension"]
  /\ UNCHANGED <<schemaConfig, documentAST, implLocals, extendedConfig, lastRead, lookedUp>>

\* Where extendSchemaImpl goes on after a loop, given the loops still to run.
afterCollect(c) ==
  IF Len(schemaConfig.types) > 0 THEN "extendTypes"
  ELSE IF Len(c.typeDefs) > 0 THEN "buildTypes" ELSE "operationTypes"

\* extendSchemaImpl: the document has nothing to extend the schema with.
ReturnSame ==
  /\ pc = "collect"
  /\ LET c == collectDefinitions(documentAST, NoDefinitions)
     IN  /\ nothingToExtend(c)
         /\ typeDefs' = c.typeDefs
         /\ typeExtensionsMap' = c.typeExtensionsMap
         /\ directiveDefs' = c.directiveDefs
         /\ schemaDef' = c.schemaDef
         /\ schemaExtensions' = c.schemaExtensions
  /\ extendedConfig' = [status |-> "return", same |-> TRUE, error |-> "",
                        config |-> schemaConfig]
  /\ pc' = "extendSchemaReturn"
  /\ UNCHANGED <<schemaConfig, documentAST, typeMap, operationTypes, i, result,
                 lastRead, lookedUp>>

\* extendSchemaImpl: the definitions are collected and there are some.
Collected ==
  /\ pc = "collect"
  /\ LET c == collectDefinitions(documentAST, NoDefinitions)
     IN  /\ ~nothingToExtend(c)
         /\ typeDefs' = c.typeDefs
         /\ typeExtensionsMap' = c.typeExtensionsMap
         /\ directiveDefs' = c.directiveDefs
         /\ schemaDef' = c.schemaDef
         /\ schemaExtensions' = c.schemaExtensions
         /\ pc' = afterCollect(c)
  /\ typeMap' = <<>>
  /\ i' = 1
  /\ UNCHANGED <<schemaConfig, documentAST, operationTypes, extendedConfig, result,
                 lastRead, lookedUp>>

\* One turn of: for (const existingType of schemaConfig.types)
\*   typeMap[existingType.name] = extendNamedType(existingType);
ExtendType ==
  /\ pc = "extendTypes"
  /\ i <= Len(schemaConfig.types)
  /\ LET existingType == schemaConfig.types[i]
     IN  /\ typeMap' = ObjSet(typeMap, existingType.name, extendNamedType(existingType))
         /\ schemaConfig' =
              [schemaConfig EXCEPT !.types[i] = afterExtendNamedType(existingType)]
         /\ lookedUp' = (lookedUp \/ extendNamedTypeResolves(existingType) # {})
  /\ IF i < Len(schemaConfig.types) THEN pc' = pc /\ i' = i + 1
     ELSE /\ pc' = IF Len(typeDefs) > 0 THEN "buildTypes" ELSE "operationTypes"
          /\ i' = 1
  /\ UNCHANGED <<documentAST, typeDefs, typeExtensionsMap, directiveDefs, schemaDef,
                 schemaExtensions, operationTypes, extendedConfig, result, lastRead>>

\* One turn of: for (const typeNode of typeDefs)
\*   typeMap[name] = stdTypeMap[name] ?? buildType(typeNode);
BuildType ==
  /\ pc = "buildTypes"
  /\ i <= Len(typeDefs)
  /\ LET typeNode == typeDefs[i]
         name == AST(typeNode).name
     IN  /\ typeMap' = ObjSet(typeMap, name,
                              IF ObjHas(stdTypeMap, name) THEN ObjGet(stdTypeMap, name)
                              ELSE buildType(typeNode))
         /\ lookedUp' = (lookedUp \/ (~ObjHas(stdTypeMap, name)
                                         /\ buildTypeResolves(typeNode) # {}))
  /\ IF i < Len(typeDefs) THEN pc' = pc /\ i' = i + 1
     ELSE pc' = "operationTypes" /\ i' = 1
  /\ UNCHANGED <<schemaConfig, documentAST, typeDefs, typeExtensionsMap, directiveDefs,
                 schemaDef, schemaExtensions, operationTypes, extendedConfig, result,
                 lastRead>>

\* Whether evaluating operationTypes looks a name up: a root of the base
\* schema through replaceNamedType, an entry of a node through getNamedType.
operationTypesResolve ==
  \/ schemaConfig.query # UndefinedInst
  \/ schemaConfig.mutation # UndefinedInst
  \/ schemaConfig.subscription # UndefinedInst
  \/ schemaDef # undefined /\ AST(schemaDef).operationTypes # <<>>
  \/ \E k \in DOMAIN schemaExtensions : AST(schemaExtensions[k]).operationTypes # <<>>

\* extendSchemaImpl: const operationTypes = { ... } is evaluated.
OperationTypes ==
  /\ pc = "operationTypes"
  /\ ~computeOperationTypes.throw
  /\ operationTypes' = computeOperationTypes.value
  /\ pc' = "assemble"
  /\ lookedUp' = (lookedUp \/ operationTypesResolve)
  /\ UNCHANGED <<schemaConfig, documentAST, typeDefs, typeExtensionsMap, directiveDefs,
                 schemaDef, schemaExtensions, typeMap, i, extendedConfig, result,
                 lastRead>>

\* extendSchemaImpl: getNamedType throws while operationTypes is evaluated.
OperationTypesThrow ==
  /\ pc = "operationTypes"
  /\ computeOperationTypes.throw
  /\ extendedConfig' = [status |-> "throw", same |-> FALSE,
                        error |-> computeOperationTypes.error, config |-> NoConfig]
  /\ pc' = "extendSchemaReturn"
  /\ lookedUp' = (lookedUp \/ operationTypesResolve)
  /\ UNCHANGED <<schemaConfig, documentAST, implLocals, result, lastRead>>

\* [...schemaConfig.directives.map(replaceDirective), ...directiveDefs.map(buildDirective)]
computeDirectives ==
  LET replaced == [k \in DOMAIN schemaConfig.directives |->
                     replaceDirective(schemaConfig.directives[k])]
  IN  Let(buildDirectives(directiveDefs, <<>>),
          LAMBDA built : IF built.throw THEN built ELSE Ok(replaced \o built.value))

\* Whether evaluating the directives looks a name up.
directivesResolve ==
  \/ \E k \in DOMAIN schemaConfig.directives : schemaConfig.directives[k].args # <<>>
  \/ \E k \in DOMAIN directiveDefs : AST(directiveDefs[k]).arguments # <<>>

\* schemaDef?.description?.value
schemaDescription ==
  IF schemaDef = undefined THEN undefined ELSE AST(schemaDef).description

\* extendSchemaImpl: return { description, ...operationTypes, types, ... }
Assemble ==
  /\ pc = "assemble"
  /\ ~computeDirectives.throw
  /\ LET extensionASTNodes == concat(schemaConfig.extensionASTNodes, schemaExtensions)
     IN  /\ extendedConfig' =
              [status |-> "return", same |-> FALSE, error |-> "",
               config |->
                 [description |-> schemaDescription,
                  query |-> ObjGet(operationTypes, "query"),
                  mutation |-> ObjGet(operationTypes, "mutation"),
                  subscription |-> ObjGet(operationTypes, "subscription"),
                  types |-> objectValues(typeMap),
                  directives |-> computeDirectives.value,
                  astNode |-> IF schemaDef # undefined THEN schemaDef
                              ELSE schemaConfig.astNode,
                  extensionASTNodes |-> extensionASTNodes.result]]
         /\ schemaConfig' =
              [schemaConfig EXCEPT !.extensionASTNodes = extensionASTNodes.receiver]
  /\ pc' = "extendSchemaReturn"
  /\ lookedUp' = (lookedUp \/ directivesResolve)
  /\ UNCHANGED <<documentAST, implLocals, result, lastRead>>

\* extendSchemaImpl: getNamedType throws while the directives are built.
AssembleThrow ==
  /\ pc = "assemble"
  /\ computeDirectives.throw
  /\ extendedConfig' = [status |-> "throw", same |-> FALSE,
                        error |-> computeDirectives.error, config |-> NoConfig]
  /\ pc' = "extendSchemaReturn"
  /\ lookedUp' = (lookedUp \/ directivesResolve)
  /\ UNCHANGED <<schemaConfig, documentAST, implLocals, result, lastRead>>

\* extendSchema: return schemaConfig === extendedConfig ? schema
\*                                   : new GraphQLSchema(extendedConfig);
\* or the error of extendSchemaImpl goes on to the caller.
extendSchemaReturn ==
  /\ pc = "extendSchemaReturn"
  /\ result' =
       IF extendedConfig.status = "throw"
         THEN [status |-> "throw", schema |-> undefined, error |-> extendedConfig.error]
       ELSE IF extendedConfig.same
         THEN [status |-> "return", schema |-> "schema", error |-> ""]
       ELSE [status |-> "return", schema |-> "new GraphQLSchema(extendedConfig)",
             error |-> ""]
  /\ pc' = "done"
  /\ UNCHANGED <<schemaConfig, documentAST, implLocals, extendedConfig, lastRead,
                 lookedUp>>

\* Whether evaluating a deferred value looks a name up.
thunkResolves(thunk, member) ==
  /\ thunk.mode # "value"
  /\ \/ thunk.base # <<>>
     \/ \E k \in DOMAIN thunk.nodes :
          CASE member = "fields" -> AST(thunk.nodes[k]).fields # <<>>
            [] member = "interfaces" -> AST(thunk.nodes[k]).interfaces # <<>>
            [] member = "types" -> AST(thunk.nodes[k]).types # <<>>

hasMember(type, member) ==
  CASE member = "fields" -> type.kind \in {"Object", "Interface", "InputObject"}
    [] member = "interfaces" -> type.kind \in {"Object", "Interface"}
    [] member = "types" -> type.kind = "Union"

readMember(type, member) ==
  CASE member = "fields" -> fieldsThunk(type)
    [] member = "interfaces" -> interfacesThunk(type)
    [] member = "types" -> typesThunk(type)

\* Whoever holds the configuration that extendSchemaImpl returned reads the
\* fields, the interfaces or the member types of one of its types
\* (getFields(), getInterfaces(), getTypes()), which runs the stored thunk.
Read ==
  /\ pc = "done"
  /\ extendedConfig.status = "return"
  /\ \E k \in DOMAIN extendedConfig.config.types :
       \E member \in {"fields", "interfaces", "types"} :
         LET type == extendedConfig.config.types[k]
         IN  /\ hasMember(type, member)
             /\ lastRead' = [type |-> type.name, member |-> member,
                             throw |-> readMember(type, member).throw,
                             error |-> readMember(type, member).error,
                             value |-> readMember(type, member).value]
             /\ lookedUp' = (lookedUp \/ thunkResolves(type[member], member))
  /\ UNCHANGED <<schemaConfig, documentAST, pc, implLocals, extendedConfig, result>>

Next ==
  \/ Validated
  \/ ValidationFailed
  \/ ReturnSame
  \/ Collected
  \/ ExtendType
  \/ BuildType
  \/ OperationTypes
  \/ OperationTypesThrow
  \/ Assemble
  \/ AssembleThrow
  \/ extendSchemaReturn
  \/ Read

Spec == Init /\ [][Next]_vars

\* ========================================================================
\* What the document declares, read off the document itself.

kindOf(k) == AST(documentAST[k]).kind

TypeDefinitionKinds ==
  {"ScalarTypeDefinition", "ObjectTypeDefinition", "InterfaceTypeDefinition",
   "UnionTypeDefinition", "EnumTypeDefinition", "InputObjectTypeDefinition"}

TypeExtensionKinds ==
  {"ScalarTypeExtension", "ObjectTypeExtension", "InterfaceTypeExtension",
   "UnionTypeExtension", "EnumTypeExtension", "InputObjectTypeExtension"}

\* The document has a definition that extendSchemaImpl takes up.
Contributes ==
  \E k \in DOMAIN documentAST :
    kindOf(k) \in {"SchemaDefinition", "SchemaExtension", "DirectiveDefinition"}
                    \cup TypeDefinitionKinds \cup TypeExtensionKinds

\* extendSchemaImpl has returned or thrown.
ImplFinished == extendedConfig.status # "none"

\* extendSchemaImpl has returned a configuration it assembled.
Assembled == extendedConfig.status = "return" /\ ~extendedConfig.same

\* ------------------------------------------------------------------------
\* C1: extendSchemaImpl returns the very configuration it was given exactly
\* when the document has no schema definition, schema extension, type
\* definition, type extension or directive definition, and whatever else it
\* returns is a configuration it assembled; extendSchema returns the schema
\* it was given exactly in that case.
C1_NoOpIdentity ==
  /\ extendedConfig.status = "return" =>
       /\ extendedConfig.same <=> ~Contributes
       /\ extendedConfig.same => extendedConfig.config = schemaConfig
  /\ (ImplFinished /\ ~Contributes) => extendedConfig.status = "return"
  /\ result.status = "return" => (result.schema = "schema" <=> ~Contributes)

C1_Witness ==
  /\ Len(documentAST) = MaxDefs
  /\ extendedConfig.status = "return"
  /\ extendedConfig.same
  /\ result.status = "return"
  /\ result.schema = "schema"

\* ------------------------------------------------------------------------
\* C2: whatever the call does (returns the same configuration, assembles a
\* new one, or throws), the configuration of the base schema, with its roots,
\* its types and all they hold, its directives and its extensionASTNodes, is
\* as it was before the call.
C2_BaseUnchanged == schemaConfig = BaseSchemaConfig

C2_Witness ==
  /\ Assembled
  /\ ObjHas(typeExtensionsMap, "A")
  /\ schemaExtensions # <<>>
  /\ pc = "done"

\* ------------------------------------------------------------------------
\* C3: for each operation kind, the root of the output is the type named by
\* the last entry for the kind among the schema extensions in document
\* order; failing that, by the entry of the schema definition; failing that,
\* the root of the base schema looked up by name in the new type map;
\* failing that, absent.

RECURSIVE EntriesOf(_)
\* The operation-type entries of the nodes at the given positions, in order.
EntriesOf(positions) ==
  IF positions = <<>> THEN <<>>
  ELSE AST(documentAST[Head(positions)]).operationTypes \o EntriesOf(Tail(positions))

RECURSIVE PositionsOfKind(_, _)
\* The positions from k on of the definitions of the given kind.
PositionsOfKind(kind, k) ==
  IF k > Len(documentAST) THEN <<>>
  ELSE (IF kindOf(k) = kind THEN <<k>> ELSE <<>>) \o PositionsOfKind(kind, k + 1)

LastFor(entries, operation) ==
  entries[CHOOSE k \in DOMAIN entries :
            /\ entries[k].operation = operation
            /\ \A j \in DOMAIN entries : entries[j].operation = operation => j <= k]

HasFor(entries, operation) == \E k \in DOMAIN entries : entries[k].operation = operation

\* The instance a name stands for: the built-in one, else the one in the map.
Named(name) ==
  IF name \in {"String", "Int", "__Schema"} THEN [name |-> name, origin |-> "std"]
  ELSE InstOf(ObjGet(typeMap, name))

ExpectedRoot(operation) ==
  LET fromExtensions == EntriesOf(PositionsOfKind("SchemaExtension", 1))
      fromDefinition == EntriesOf(PositionsOfKind("SchemaDefinition", 1))
      base == BaseSchemaConfig[operation]
  IN  IF HasFor(fromExtensions, operation)
        THEN Named(LastFor(fromExtensions, operation).type.name)
      ELSE IF HasFor(fromDefinition, operation)
        THEN Named(LastFor(fromDefinition, operation).type.name)
      ELSE IF base # UndefinedInst /\ ObjHas(typeMap, base.name)
        THEN InstOf(ObjGet(typeMap, base.name))
      ELSE UndefinedInst

C3_RootOverrideChain ==
  Assembled =>
    \A operation \in {"query", "mutation", "subscription"} :
      extendedConfig.config[operation] = ExpectedRoot(operation)

C3_Witness ==
  /\ Assembled
  /\ schemaDef # undefined
  /\ schemaExtensions # <<>>
  /\ BaseSchemaConfig.query.name = "Q"
  /\ HasFor(AST(schemaDef).operationTypes, "query")
  /\ LastFor(AST(schemaDef).operationTypes, "query").type.name = "B"
  /\ extendedConfig.config.query = [name |-> "A", origin |-> "extended"]
  /\ extendedConfig.config.mutation = [name |-> "B", origin |-> "extended"]
  /\ extendedConfig.config.subscription = UndefinedInst

\* ------------------------------------------------------------------------
\* C4: the fields of a rebuilt object or interface type are the fields of
\* the base type overlaid by the fields that the extension nodes for its
\* name declare, in document order: a name some extension declares has the
\* field of the last declaration, any other name of the base type has the
\* base field re-pointed through the new map; no name occurs twice and a
\* collision raises no error.

RECURSIVE ExtensionPositions(_, _)
\* The positions from k on of the type extensions for the name.
ExtensionPositions(name, k) ==
  IF k > Len(documentAST) THEN <<>>
  ELSE (IF kindOf(k) \in TypeExtensionKinds /\ AST(documentAST[k]).name = name
          THEN <<k>> ELSE <<>>) \o ExtensionPositions(name, k + 1)

RECURSIVE FieldsAt(_)
\* The field nodes of the nodes at the given positions, in order.
FieldsAt(positions) ==
  IF positions = <<>> THEN <<>>
  ELSE AST(documentAST[Head(positions)]).fields \o FieldsAt(Tail(positions))

LastNamed(nodes, name) ==
  nodes[CHOOSE k \in DOMAIN nodes :
          /\ nodes[k].name = name
          /\ \A j \in DOMAIN nodes : nodes[j].name = name => j <= k]

Declares(nodes, name) == \E k \in DOMAIN nodes : nodes[k].name = name

BaseTypeNamed(name) ==
  BaseTypes[CHOOSE k \in DOMAIN BaseTypes : BaseTypes[k].name = name]

\* What a type node of the document stands for.
Resolved(typeNode) == [w |-> typeNode.w, inst |-> Named(typeNode.name)]

\* What a type held by the base schema stands for in the new schema.
Repointed(type) == [w |-> type.w, inst |-> InstOf(ObjGet(typeMap, type.inst.name))]

DeclaredField(fieldNode) ==
  [type |-> Resolved(fieldNode.type),
   args |-> [k \in DOMAIN fieldNode.arguments |->
               [key |-> fieldNode.arguments[k].name,
                value |-> [type |-> Resolved(fieldNode.arguments[k].type)]]]]

RepointedField(field) ==
  [type |-> Repointed(field.type),
   args |-> [k \in DOMAIN field.args |->
               [key |-> field.args[k].key,
                value |-> [type |-> Repointed(field.args[k].value.type)]]]]

Unknown(name) ==
  /\ name \notin {"String", "Int", "__Schema"}
  /\ \A k \in DOMAIN typeMap : typeMap[k].key # name

\* The fields of a rebuilt object or interface type have been read.
ReadRebuiltFields ==
  /\ Assembled
  /\ lastRead.member = "fields"
  /\ ObjHas(typeMap, lastRead.type)
  /\ ObjGet(typeMap, lastRead.type).origin = "extended"
  /\ ObjGet(typeMap, lastRead.type).kind \in {"Object", "Interface"}

C4_FieldOverlay ==
  ReadRebuiltFields =>
    LET declared == FieldsAt(ExtensionPositions(lastRead.type, 1))
        base == BaseTypeNamed(lastRead.type).fields.base
        fields == lastRead.value
        names == {declared[k].name : k \in DOMAIN declared}
                   \cup {base[k].key : k \in DOMAIN base}
    IN  IF lastRead.throw THEN Unknown(lastRead.error)
        ELSE /\ \A j, k \in DOMAIN fields : fields[j].key = fields[k].key => j = k
             /\ {fields[k].key : k \in DOMAIN fields} = names
             /\ \A name \in names :
                  ObjGet(fields, name) =
                    IF Declares(declared, name)
                      THEN DeclaredField(LastNamed(declared, name))
                      ELSE RepointedField(ObjGet(base, name))

C4_Witness ==
  /\ ReadRebuiltFields
  /\ ~lastRead.throw
  /\ Len(ExtensionPositions(lastRead.type, 1)) = 2
  /\ LET first == AST(documentAST[1]).fields
         second == AST(documentAST[2]).fields
         base == BaseTypeNamed(lastRead.type).fields.base
     IN  /\ \E j \in DOMAIN first : \E k \in DOMAIN second :
              /\ first[j].name = second[k].name
              /\ first[j].type # second[k].type
              /\ ObjGet(lastRead.value, first[j].name).type = Resolved(second[k].type)
         /\ \E j \in DOMAIN first : \E k \in DOMAIN base :
              /\ first[j].name = base[k].key
              /\ ObjGet(lastRead.value, first[j].name).type = Resolved(first[j].type)

\* ------------------------------------------------------------------------
\* C5: under the name of a built-in type the output holds the unmodified
\* built-in instance, with its own fields, description and extension nodes,
\* whatever extension or definition nodes of the document have that name.
C5_BuiltinImmunity ==
  Assembled =>
    /\ \A k \in DOMAIN extendedConfig.config.types :
         LET type == extendedConfig.config.types[k]
         IN  type.name \in {"String", "Int", "__Schema"} =>
               /\ type = StdType(type.name)
               /\ \A j \in DOMAIN BaseTypes :
                    BaseTypes[j].name = type.name => type = BaseTypes[j]
    /\ lastRead.type \in {"String", "Int", "__Schema"} =>
         /\ ~lastRead.throw
         /\ lastRead.value = StdType(lastRead.type)[lastRead.member].base

C5_Witness ==
  /\ Assembled
  /\ \E k \in DOMAIN documentAST :
       kindOf(k) \in TypeDefinitionKinds /\ AST(documentAST[k]).name = "__Schema"
  /\ \E k \in DOMAIN documentAST :
       /\ kindOf(k) \in TypeExtensionKinds
       /\ AST(documentAST[k]).name = "__Schema"
       /\ AST(documentAST[k]).fields # <<>>
  /\ lastRead.type = "__Schema"
  /\ lastRead.member = "fields"

\* ------------------------------------------------------------------------
\* The named-type references of the document.

NamesOf(typeNodes) == [k \in DOMAIN typeNodes |-> typeNodes[k].name]

RECURSIVE FieldNames(_)
\* The names the field nodes refer to, in the order they are resolved: the
\* type of a field, then the types of its arguments.
FieldNames(fields) ==
  IF fields = <<>> THEN <<>>
  ELSE <<Head(fields).type.name>>
         \o [k \in DOMAIN Head(fields).arguments |-> Head(fields).arguments[k].type.name]
         \o FieldNames(Tail(fields))

RECURSIVE MemberNames(_, _)
\* The names the nodes at the given positions refer to in one member.
MemberNames(positions, member) ==
  IF positions = <<>> THEN <<>>
  ELSE LET node == AST(documentAST[Head(positions)])
       IN  (CASE member = "fields" -> FieldNames(node.fields)
              [] member = "interfaces" -> NamesOf(node.interfaces)
              [] member = "types" -> NamesOf(node.types)
              [] member = "arguments" ->
                   [k \in DOMAIN node.arguments |-> node.arguments[k].type.name]
              [] member = "operationTypes" ->
                   [k \in DOMAIN node.operationTypes |-> node.operationTypes[k].type.name])
             \o MemberNames(Tail(positions), member)

LastOf(positions) == IF positions = <<>> THEN <<>> ELSE <<positions[Len(positions)]>>

RECURSIVE DefinitionPositions(_, _)
\* The positions from k on of the type definitions of the name.
DefinitionPositions(name, k) ==
  IF k > Len(documentAST) THEN <<>>
  ELSE (IF kindOf(k) \in TypeDefinitionKinds /\ AST(documentAST[k]).name = name
          THEN <<k>> ELSE <<>>) \o DefinitionPositions(name, k + 1)

\* Every name the document refers to, wherever.
DeclaredNames ==
  LET all == [k \in DOMAIN documentAST |-> k]
      names(member) == {MemberNames(all, member)[k] : k \in DOMAIN MemberNames(all, member)}
  IN  names("fields") \cup names("interfaces") \cup names("types")
        \cup names("arguments") \cup names("operationTypes")

\* The names extendSchemaImpl resolves before it returns: the operation
\* types of the schema definition and of the schema extensions, then the
\* argument types of the directive definitions.
EagerNames ==
  MemberNames(LastOf(PositionsOfKind("SchemaDefinition", 1)), "operationTypes")
    \o MemberNames(PositionsOfKind("SchemaExtension", 1), "operationTypes")
    \o MemberNames(PositionsOfKind("DirectiveDefinition", 1), "arguments")

\* The names resolved when a member of a type of the new map is read: those
\* of its definition node, if the document defines the type, and of the
\* extension nodes for its name; none for a built-in type.
DeferredNames(name, member) ==
  LET origin == ObjGet(typeMap, name).origin
  IN  IF origin = "built"
        THEN MemberNames(LastOf(DefinitionPositions(name, 1))
                           \o ExtensionPositions(name, 1), member)
      ELSE IF origin = "extended"
        THEN MemberNames(ExtensionPositions(name, 1), member)
      ELSE <<>>

HasUnknown(names) == \E k \in DOMAIN names : Unknown(names[k])

FirstUnknown(names) ==
  names[CHOOSE k \in DOMAIN names :
          Unknown(names[k]) /\ \A j \in 1..(k - 1) : ~Unknown(names[j])]

\* No reference of a value that was read is left without an instance.
AllResolved(value, member) ==
  IF member = "fields"
    THEN \A k \in DOMAIN value :
           /\ value[k].value.type.inst # UndefinedInst
           /\ \A j \in DOMAIN value[k].value.args :
                value[k].value.args[j].value.type.inst # UndefinedInst
    ELSE \A k \in DOMAIN value : value[k] # UndefinedInst

RootRefs ==
  {extendedConfig.config.query, extendedConfig.config.mutation,
   extendedConfig.config.subscription} \ {UndefinedInst}

DirectiveRefs ==
  LET directives == extendedConfig.config.directives
  IN  UNION {{directives[k].args[j].value.type.inst : j \in DOMAIN directives[k].args} :
               k \in DOMAIN directives}

ReadRefs ==
  IF lastRead.type = undefined \/ lastRead.throw THEN {}
  ELSE IF lastRead.member = "fields"
    THEN {lastRead.value[k].value.type.inst : k \in DOMAIN lastRead.value}
           \cup UNION {{lastRead.value[k].value.args[j].value.type.inst :
                          j \in DOMAIN lastRead.value[k].value.args} :
                         k \in DOMAIN lastRead.value}
  ELSE {lastRead.value[k] : k \in DOMAIN lastRead.value}

OutputRefs == RootRefs \cup DirectiveRefs \cup ReadRefs

\* C7 as stated: every reference of the output is to the instance that the
\* new type map has under the name.
C7_RefsInNewTypeMap ==
  Assembled =>
    \A ref \in OutputRefs :
      /\ ObjHas(typeMap, ref.name)
      /\ ref = InstOf(ObjGet(typeMap, ref.name))

\* C7 amended: every reference of the output is to the built-in instance if
\* its name is that of a built-in type, which the new type map need not
\* have, and otherwise to the instance the new type map has under the
\* name; where the map has the name, the reference is to the map's
\* instance; none is to an instance of the base schema that was rebuilt.
\* An argument of a directive of the base schema refers to the rebuilt type.
C7_RefsThroughNewTypeMap ==
  Assembled =>
    /\ \A ref \in OutputRefs :
         /\ ref = Named(ref.name)
         /\ ObjHas(typeMap, ref.name) => ref = InstOf(ObjGet(typeMap, ref.name))
         /\ ref.origin # "base"
    /\ \A k \in DOMAIN BaseDirectives :
         LET directive == extendedConfig.config.directives[k]
         IN  /\ directive.name = BaseDirectives[k].name
             /\ DOMAIN directive.args = DOMAIN BaseDirectives[k].args
             /\ \A j \in DOMAIN directive.args :
                  /\ directive.args[j].key = BaseDirectives[k].args[j].key
                  /\ directive.args[j].value.type =
                       Repointed(BaseDirectives[k].args[j].value.type)

C7_Witness ==
  /\ Assembled
  /\ lastRead.member = "fields"
  /\ ~lastRead.throw
  /\ ObjGet(typeMap, lastRead.type).origin = "extended"
  /\ \E k \in DOMAIN lastRead.value :
       lastRead.value[k].value.type.inst = [name |-> lastRead.type, origin |-> "extended"]
  /\ \E ref \in DirectiveRefs :
       ref.origin = "extended" /\ ObjGet(typeMap, ref.name).kind = "Object"
  /\ \E ref \in OutputRefs : ~ObjHas(typeMap, ref.name)

\* ------------------------------------------------------------------------
\* C8: the description of the assembled configuration is that of the schema
\* definition of the document if it has one, and otherwise that of the base
\* schema.
C8_Description ==
  Assembled =>
    extendedConfig.config.description =
      LET definitions == PositionsOfKind("SchemaDefinition", 1)
      IN  IF definitions # <<>>
            THEN AST(documentAST[definitions[Len(definitions)]]).description
            ELSE BaseSchemaConfig.description

\* ------------------------------------------------------------------------
\* C9: the specified-by URL of every scalar of the output is the last one
\* that is not absent among the URL of the base scalar, or of the definition
\* node for a scalar the document defines, and the URLs of the extension
\* nodes for its name in document order.

LastNonAbsent(urls) ==
  IF \A k \in DOMAIN urls : urls[k] = undefined THEN undefined
  ELSE urls[CHOOSE k \in DOMAIN urls :
              /\ urls[k] # undefined
              /\ \A j \in DOMAIN urls : urls[j] # undefined => j <= k]

UrlsAt(positions) == [k \in DOMAIN positions |-> AST(documentAST[positions[k]]).specifiedBy]

C9_SpecifiedByUrl ==
  Assembled =>
    \A k \in DOMAIN extendedConfig.config.types :
      LET type == extendedConfig.config.types[k]
          first == IF type.origin = "built"
                     THEN UrlsAt(LastOf(DefinitionPositions(type.name, 1)))
                     ELSE <<BaseTypeNamed(type.name).specifiedByUrl>>
      IN  type.kind = "Scalar" =>
            type.specifiedByUrl =
              LastNonAbsent(first \o UrlsAt(ExtensionPositions(type.name, 1)))

ReadRebuiltTypes ==
  /\ Assembled
  /\ lastRead.member = "types"
  /\ ObjHas(typeMap, lastRead.type)
  /\ ObjGet(typeMap, lastRead.type).origin = "extended"
  /\ ObjGet(typeMap, lastRead.type).kind = "Union"

\* The members of the base union looked up by name in the new map, then
\* those the extension nodes for the name declare, in document order.
MembersInOrder ==
  LET base == BaseTypeNamed(lastRead.type).types.base
      declared == MemberNames(ExtensionPositions(lastRead.type, 1), "types")
  IN  [k \in DOMAIN base |-> InstOf(ObjGet(typeMap, base[k].name))]
        \o [k \in DOMAIN declared |-> Named(declared[k])]

RECURSIVE FirstOccurrences(_, _)
\* The sequence without the elements that occur earlier in it.
FirstOccurrences(members, seen) ==
  IF members = <<>> THEN <<>>
  ELSE (IF Head(members) \in seen THEN <<>> ELSE <<Head(members)>>)
         \o FirstOccurrences(Tail(members), seen \cup {Head(members)})

\* C11 as stated: the members of a rebuilt union are those of the base
\* union looked up in the new map, followed by those the extension nodes
\* declare in document order, and a member that is declared again appears
\* once only.
C11_UnionMembersOnce ==
  (ReadRebuiltTypes /\ ~lastRead.throw) =>
    /\ \A j, k \in DOMAIN lastRead.value :
         lastRead.value[j].name = lastRead.value[k].name => j = k
    /\ lastRead.value = FirstOccurrences(MembersInOrder, {})

\* C11 amended: the members of a rebuilt union are those of the base union
\* looked up in the new map, followed by every member the extension nodes
\* declare, in document order, a member that is declared again appearing
\* again; the read throws only the unknown-type error.
C11_UnionMembersAppended ==
  ReadRebuiltTypes =>
    IF lastRead.throw THEN Unknown(lastRead.error)
    ELSE lastRead.value = MembersInOrder

C11_Witness ==
  /\ ReadRebuiltTypes
  /\ ~lastRead.throw
  /\ Len(ExtensionPositions(lastRead.type, 1)) = 2
  /\ LET base == BaseTypeNamed(lastRead.type).types.base
     IN  /\ \E j \in DOMAIN base : \E k \in DOMAIN lastRead.value :
              k > Len(base) /\ lastRead.value[k].name = base[j].name
         /\ \E j, k \in DOMAIN lastRead.value :
              Len(base) < j /\ j < k /\ lastRead.value[j] = lastRead.value[k]
         /\ \E k \in DOMAIN lastRead.value :
              lastRead.value[k].origin = "extended"

====
